---- MODULE Spec2Model ----
(***************************************************************************)
(* Model of the three scanners of the repository:                          *)
(*   Subnethostfinder.py  - resumable nmap sweep of 10.0.0.0/8 by /24      *)
(*   getserviceforall.py  - SMB enumeration of a target list               *)
(*   vf.py                - ping sweep of the private networks + VLAN probe *)
(* One behaviour of the model is one invocation of one script (prog).      *)
(* The address space is scaled down: addresses are AddrBits wide and the   *)
(* prefixes 8/16/24 of the code become BasePrefix/MidPrefix/UnitPrefix.    *)
(***************************************************************************)
EXTENDS Integers, Sequences, FiniteSets, TLC

\* ---- bounds of the model (scaled-down sizes) ----
AddrBits == 4        \* width of an address (32 in the code)
BasePrefix == 1      \* prefix of the swept range (8 in the code)
MidPrefix == 2       \* prefix of the outer loop (16 in the code)
UnitPrefix == 3      \* prefix of a scan unit (24 in the code)
MaxWorkers == 2      \* pool size of the subnet sweep (10 in the code)
MaxLive == 2         \* most live hosts the probe fixture puts in one unit
MaxFail == 1         \* most units whose probe fails in one fixture
MaxRuns == 2         \* invocations of the sweep in one behaviour
MaxTargets == 3      \* targets in the input file of the service scan
SvcThreads == 2      \* the --threads argument (default 5)
LiveNetSize == 4     \* addresses in each private network of the ping sweep
LiveWorkers == 2     \* pool size of the ping sweep (100 in the code)

\* an optional value: None, or Some(x)
None == <<>>
Some(x) == <<x>>
Get(o) == o[1]

RECURSIVE Pow2(_)
Pow2(n) == IF n <= 0 THEN 1 ELSE 2 * Pow2(n - 1)

\* ---- ipaddress: networks, partitioning, ordering ----
Net(a, p) == [addr |-> a, prefix |-> p]

\* ipaddress.ip_network("10.0.0.0/8"): top bit set, host bits clear
base_network == Net(Pow2(AddrBits - 1), BasePrefix)

\* a partition that loses the last subnet of every range
Subnets_DropLast(n, new_prefix) ==
    [i \in 1..(Pow2(new_prefix - n.prefix) - 1) |->
        Net(n.addr + (i - 1) * Pow2(AddrBits - new_prefix), new_prefix)]

\* IPv4Network.subnets(new_prefix=p): ascending, step = size of a new subnet
Subnets(n, new_prefix) ==
    [i \in 1..Pow2(new_prefix - n.prefix) |->
        Net(n.addr + (i - 1) * Pow2(AddrBits - new_prefix), new_prefix)]

\* addresses of a network
Addresses(n) == n.addr .. (n.addr + Pow2(AddrBits - n.prefix) - 1)

\* _BaseNetwork.__lt__: by network address, then by netmask
NetLt(a, b) ==
    IF a.addr # b.addr THEN a.addr < b.addr
    ELSE IF a.prefix # b.prefix THEN a.prefix < b.prefix
    ELSE FALSE

NetLe(a, b) == a = b \/ NetLt(a, b)

RECURSIVE Flatten(_)
Flatten(ss) == IF ss = <<>> THEN <<>> ELSE Head(ss) \o Flatten(Tail(ss))

\* nested loops whose outer loop runs over the /16 ranges from the last to the first
UnitSeq_OuterDescending ==
    LET outer == Subnets(base_network, MidPrefix)
    IN  Flatten([i \in 1..Len(outer) |-> Subnets(outer[Len(outer) + 1 - i], UnitPrefix)])

\* the order in which the nested loops of scan_networks visit the /24 units
UnitSeq ==
    LET outer == Subnets(base_network, MidPrefix)
    IN  Flatten([i \in 1..Len(outer) |-> Subnets(outer[i], UnitPrefix)])

Range(s) == {s[i] : i \in 1..Len(s)}
UnitSet == Range(UnitSeq)

\* ---- strings: str(network), ip_network(text), string comparison ----
\* a string is a sequence of character codes; "/" is 47, "0".."9" are 48..57
Slash == 47
Zero == 48

RECURSIVE Digits(_)
Digits(n) == IF n < 10 THEN <<Zero + n>> ELSE Digits(n \div 10) \o <<Zero + (n % 10)>>

\* str(subnet_24)
Str(n) == Digits(n.addr) \o <<Slash>> \o Digits(n.prefix)

IsDigits(s) == Len(s) > 0 /\ \A i \in 1..Len(s) : s[i] \in Zero..(Zero + 9)

RECURSIVE Val(_)
Val(s) == IF s = <<>> THEN 0 ELSE 10 * Val(SubSeq(s, 1, Len(s) - 1)) + (s[Len(s)] - Zero)

SlashAt(s) == {i \in 1..Len(s) : s[i] = Slash}

\* the two parts of "addr/prefix"; a text without "/" is a single address
AddrPart(s) == IF SlashAt(s) = {} THEN s
               ELSE SubSeq(s, 1, (CHOOSE i \in SlashAt(s) : TRUE) - 1)
PrefixPart(s) == IF SlashAt(s) = {} THEN Digits(AddrBits)
                 ELSE SubSeq(s, (CHOOSE i \in SlashAt(s) : TRUE) + 1, Len(s))

\* ipaddress.ip_network(text) (strict): does it return, or raise ValueError
ParseOK(s) ==
    /\ Cardinality(SlashAt(s)) <= 1
    /\ IsDigits(AddrPart(s))
    /\ IsDigits(PrefixPart(s))
    /\ Val(PrefixPart(s)) <= AddrBits
    /\ Val(AddrPart(s)) < Pow2(AddrBits)
    /\ Val(AddrPart(s)) % Pow2(AddrBits - Val(PrefixPart(s))) = 0

ParseNet(s) == Net(Val(AddrPart(s)), Val(PrefixPart(s)))

\* Python str.__lt__: lexicographic by character code
RECURSIVE StrLt(_, _)
StrLt(a, b) ==
    IF b = <<>> THEN FALSE
    ELSE IF a = <<>> THEN TRUE
    ELSE IF Head(a) # Head(b) THEN Head(a) < Head(b)
    ELSE StrLt(Tail(a), Tail(b))

\* sorted(data) for a set of strings
RECURSIVE Sorted(_)
Sorted(S) ==
    IF S = {} THEN <<>>
    ELSE LET m == CHOOSE x \in S : \A y \in S \ {x} : StrLt(x, y)
         IN  <<m>> \o Sorted(S \ {m})


\* ---- the prober: a static fixture (what nmap reports for each unit) ----
Min(a, b) == IF a < b THEN a ELSE b

IndexOf(u) == CHOOSE i \in 1..Len(UnitSeq) : UnitSeq[i] = u

\* the first k addresses of unit u answer
LiveHosts(u, k) == [j \in 1..Min(k, Pow2(AddrBits - u.prefix)) |-> u.addr + j - 1]

FailKinds == {"timeout", "error"}

Fixtures ==
    { [u \in UnitSet |->
          IF u \in F THEN [kind |-> k, hosts |-> <<>>]
          ELSE [kind |-> "ok",
                hosts |-> LiveHosts(u, (IndexOf(u) + shift) % (MaxLive + 1))]] :
      shift \in 0..MaxLive,
      F \in {G \in SUBSET UnitSet : Cardinality(G) <= MaxFail},
      k \in FailKinds }

VARIABLES
    prog,           \* which script this behaviour runs
    pc,             \* position of the main thread
    prober,         \* the probe fixture: unit -> [kind, hosts]
    progress,       \* progress file: None (absent) or its text
    nmap_output,    \* nmap output file: blocks appended by run_nmap_scan
    start_network,  \* scan_networks: marker parsed at start, or None
    cursor,         \* scan_networks: position of the nested loops in UnitSeq
    scan_futures,   \* scan_networks: units submitted to the executor
    queue,          \* executor work queue (submitted, not started)
    running,        \* units whose run_nmap_scan is executing in a worker
    finished,       \* units whose future is done
    waiting,        \* as_completed: futures it has not yielded yet arrive here in completion order
    early,          \* as_completed: futures already done when it was called
    yielded,        \* units as_completed has yielded
    writes,         \* save_progress calls of this run, in order (units)
    probes,         \* number of run_nmap_scan calls per unit in this run
    subnets_out,    \* active-subnet file: None or its lines
    hosts_out,      \* host-membership file: None or its blocks
    runs,           \* number of invocations so far
    scanned,        \* units whose run_nmap_scan returned, per invocation
    first_report,   \* reports of the first invocation, once a second one starts
    io,             \* [thread, file]: threads between open() and close() of a file
    current         \* scan_networks: the unit as_completed yielded last, while it is saved

VARIABLES
    ports,          \* getserviceforall: the --ports argument, split at ","
    hosts_env,      \* getserviceforall: what nmap finds on each target
    t_queue,        \* executor.map work queue
    t_running,      \* targets whose scan_host is executing in a worker
    t_pc,           \* position of scan_host, per target
    t_open,         \* scan_host: open_ports, per target
    t_next,         \* scan_host: index in smb_ports of the next iteration, per target
    t_results,      \* scan_host: results, per target
    t_raised,       \* did process_target end with an exception, per target
    all_results,    \* smb_scan_parallel: all_results
    svc_out,        \* output file: None or its lines
    t_calls         \* per target: the ports the script scan was called for

svcVars == <<ports, hosts_env, t_queue, t_running, t_pc, t_open, t_next, t_results,
             t_raised, all_results, svc_out, t_calls>>

VARIABLES
    net_idx,        \* scan_private_networks: index of the network being scanned
    futures,        \* scan_private_networks: futures of the current network (hosts)
    l_queue,        \* executor work queue
    l_running,      \* hosts whose is_host_alive is executing in a worker
    l_result,       \* result of the future of each host
    l_pos,          \* index in futures of the next future.result()
    active_hosts,   \* scan_private_networks: active_hosts
    detected_vlans, \* scan_private_networks: detected_vlans, in insertion order
    live_out,       \* active-IP file: None or its lines
    vlan_out,       \* VLAN file: None or its lines
    l_done          \* the hosts whose ping has returned, in the order of return

liveVars == <<net_idx, futures, l_queue, l_running, l_result, l_pos, active_hosts,
              detected_vlans, live_out, vlan_out, l_done>>

sweepVarsButPc == <<prober, progress, nmap_output, start_network, cursor, scan_futures,
                    queue, running, finished, waiting, early, yielded, writes, probes,
                    subnets_out, hosts_out, runs, scanned, first_report, io, current>>

sweepVars == <<pc, prober, progress, nmap_output, start_network, cursor, scan_futures,
               queue, running, finished, waiting, early, yielded, writes, probes,
               subnets_out, hosts_out, runs, scanned, first_report, io, current>>

vars == <<prog, sweepVars, svcVars, liveVars>>

\* ---- Subnethostfinder.py ----

\* the texts a progress file can hold at start
Malformed == <<120>>
Markers == {None, Some(<<>>), Some(Malformed)} \cup {Some(Str(u)) : u \in UnitSet}

\* in-memory state of a fresh invocation of scan_networks
FreshRun ==
    /\ pc = "load"
    /\ start_network = None
    /\ cursor = 1
    /\ scan_futures = {}
    /\ queue = <<>>
    /\ running = {}
    /\ finished = {}
    /\ waiting = <<>>
    /\ early = {}
    /\ yielded = {}
    /\ writes = <<>>
    /\ probes = [u \in UnitSet |-> 0]
    /\ io = {}
    /\ current = None

\* the variables of a script that is not the one running
SubnetIdle ==
    /\ prober = [u \in UnitSet |-> [kind |-> "ok", hosts |-> <<>>]]
    /\ progress = None
    /\ nmap_output = <<>>
    /\ subnets_out = None
    /\ hosts_out = None
    /\ runs = 1
    /\ scanned = <<{}>>
    /\ first_report = None
    /\ start_network = None
    /\ cursor = 1
    /\ scan_futures = {}
    /\ queue = <<>>
    /\ running = {}
    /\ finished = {}
    /\ waiting = <<>>
    /\ early = {}
    /\ yielded = {}
    /\ writes = <<>>
    /\ probes = [u \in UnitSet |-> 0]
    /\ io = {}
    /\ current = None

SvcIdle ==
    /\ ports = <<>>
    /\ hosts_env = <<>>
    /\ t_queue = <<>>
    /\ t_running = {}
    /\ t_pc = <<>>
    /\ t_open = <<>>
    /\ t_next = <<>>
    /\ t_results = <<>>
    /\ t_raised = <<>>
    /\ all_results = <<>>
    /\ svc_out = None
    /\ t_calls = <<>>

LiveIdle ==
    /\ net_idx = 1
    /\ futures = <<>>
    /\ l_queue = <<>>
    /\ l_running = {}
    /\ l_result = <<>>
    /\ l_pos = 1
    /\ active_hosts = <<>>
    /\ detected_vlans = <<>>
    /\ live_out = None
    /\ vlan_out = None
    /\ l_done = <<>>

InitSubnet ==
    /\ prog = "subnet"
    /\ SvcIdle /\ LiveIdle
    /\ prober \in Fixtures
    /\ progress \in Markers
    /\ nmap_output = <<>>
    /\ subnets_out = None
    /\ hosts_out = None
    /\ runs = 1
    /\ scanned = <<{}>>
    /\ first_report = None
    /\ FreshRun

\* load_progress + the conversion at the top of scan_networks
\* (an empty text is falsy; ip_network raises ValueError on a malformed one)
StartNetworkRaises(file) == file # None /\ Get(file) # <<>> /\ ~ParseOK(Get(file))

StartNetwork(file) ==
    IF file = None \/ Get(file) = <<>> THEN None ELSE Some(ParseNet(Get(file)))

LoadProgress ==
    /\ prog = "subnet" /\ pc = "load"
    /\ IF StartNetworkRaises(progress)
       THEN pc' = "aborted" /\ UNCHANGED start_network
       ELSE pc' = "submit" /\ start_network' = StartNetwork(progress)
    /\ UNCHANGED <<svcVars, liveVars, io, current, prog, prober, progress, nmap_output, cursor, scan_futures, queue, running,
                   finished, waiting, early, yielded, writes, probes, subnets_out,
                   hosts_out, runs, scanned, first_report>>

\* the marker unit is skipped as well
Skipped_Inclusive(u, start) == start # None /\ NetLe(u, Get(start))

\* `if start_network and subnet_24 < start_network: continue`
Skipped(u, start) == start # None /\ NetLt(u, Get(start))

\* one iteration of the nested loops: skip the unit or submit it
Submit ==
    /\ prog = "subnet" /\ pc = "submit"
    /\ cursor <= Len(UnitSeq)
    /\ LET u == UnitSeq[cursor] IN
         IF Skipped(u, start_network)
         THEN UNCHANGED <<scan_futures, queue>>
         ELSE /\ scan_futures' = scan_futures \cup {u}
              /\ queue' = Append(queue, u)
    /\ cursor' = cursor + 1
    /\ UNCHANGED <<svcVars, liveVars, io, current, prog, pc, prober, progress, nmap_output, start_network, running, finished,
                   waiting, early, yielded, writes, probes, subnets_out, hosts_out,
                   runs, scanned, first_report>>

\* a pool that starts a thread for every queued unit
CanStart_Unbounded(busy, n) == TRUE

\* ThreadPoolExecutor(max_workers=N): a queued unit starts only on a free worker
CanStart(busy, n) == Cardinality(busy) < n

WorkerStart ==
    /\ prog = "subnet" /\ pc \in {"submit", "collect", "save", "save_failed"}
    /\ queue # <<>>
    /\ CanStart(running, MaxWorkers)
    /\ running' = running \cup {Head(queue)}
    /\ queue' = Tail(queue)
    /\ UNCHANGED <<svcVars, liveVars, io, current, prog, pc, prober, progress, nmap_output, start_network, cursor,
                   scan_futures, finished, waiting, early, yielded, writes, probes,
                   subnets_out, hosts_out, runs, scanned, first_report>>

\* the block is written whatever the outcome of the scan
RunNmapScan_AlwaysWrites(file, u, outcome) ==
    Append(file, [subnet |-> Str(u), hosts |-> outcome.hosts])

\* run_nmap_scan: what it appends to the nmap output file
\* (a block per completed scan; nothing on timeout or error)
RunNmapScan(file, u, outcome) ==
    IF outcome.kind = "ok"
    THEN Append(file, [subnet |-> Str(u), hosts |-> outcome.hosts])
    ELSE file

AddScanned(s, u) == [s EXCEPT ![Len(s)] = @ \cup {u}]

\* threads: the main thread, and the worker that runs the scan of unit u
MainThread == None
Worker(u) == Some(u)

\* the workers write the progress file
WorkerFile_Progress(u) == "progress"

\* the file run_nmap_scan opens in append mode (its nmap_output_file argument)
WorkerFile(u) == "nmap"

InFile(thread) == \E e \in io : e.thread = thread

\* run_nmap_scan after a completed scan: `with open(nmap_output_file, "a")`
WorkerOpen(u) ==
    /\ prog = "subnet" /\ pc \in {"submit", "collect", "save", "save_failed"}
    /\ u \in running
    /\ prober[u].kind = "ok"
    /\ ~InFile(Worker(u))
    /\ io' = io \cup {[thread |-> Worker(u), file |-> WorkerFile(u)]}
    /\ UNCHANGED <<svcVars, liveVars, current, prog, pc, prober, progress, nmap_output,
                   start_network, cursor, scan_futures, queue, running, finished, waiting,
                   early, yielded, writes, probes, subnets_out, hosts_out, runs, scanned,
                   first_report>>

\* a worker's run_nmap_scan returns (after the write and the close of the file,
\* or from an except clause) and its future becomes done
WorkerFinish(u) ==
    /\ prog = "subnet" /\ pc \in {"submit", "collect", "save", "save_failed"}
    /\ u \in running
    /\ prober[u].kind = "ok" => InFile(Worker(u))
    /\ io' = {e \in io : e.thread # Worker(u)}
    /\ running' = running \ {u}
    /\ nmap_output' = RunNmapScan(nmap_output, u, prober[u])
    /\ finished' = finished \cup {u}
    /\ probes' = [probes EXCEPT ![u] = @ + 1]
    /\ scanned' = AddScanned(scanned, u)
    /\ waiting' = IF pc \in {"collect", "save"} THEN Append(waiting, u) ELSE waiting
    /\ UNCHANGED <<svcVars, liveVars, current, prog, pc, prober, progress, start_network,
                   cursor, scan_futures, queue, early, yielded, writes, subnets_out,
                   hosts_out, runs, first_report>>

\* as_completed(scan_futures) is entered: the futures already done are set aside
AsCompleted ==
    /\ prog = "subnet" /\ pc = "submit"
    /\ cursor > Len(UnitSeq)
    /\ pc' = "collect"
    /\ early' = finished
    /\ UNCHANGED <<svcVars, liveVars, io, current, prog, prober, progress, nmap_output, start_network, cursor, scan_futures,
                   queue, running, finished, waiting, yielded, writes, probes,
                   subnets_out, hosts_out, runs, scanned, first_report>>

\* save_progress: the text the progress file holds after the write
SaveProgress(old, subnet) == Some(subnet)

\* as_completed yields unit u: first the futures that were already done (a
\* set, in any order), then the others in the order they complete
Yield(u) ==
    \/ /\ u \in early
       /\ early' = early \ {u}
       /\ UNCHANGED waiting
    \/ /\ early = {}
       /\ waiting # <<>>
       /\ u = Head(waiting)
       /\ waiting' = Tail(waiting)
       /\ UNCHANGED early

\* one turn of the as_completed loop up to the open() of save_progress:
\* future.result() is read, and opening the progress file for writing truncates it
Collect ==
    /\ prog = "subnet" /\ pc = "collect"
    /\ \E u \in scan_futures :
          /\ Yield(u)
          /\ current' = Some(u)
    /\ pc' = "save"
    /\ progress' = Some(<<>>)
    /\ io' = io \cup {[thread |-> MainThread, file |-> "progress"]}
    /\ UNCHANGED <<svcVars, liveVars, prog, prober, nmap_output, start_network, cursor,
                   scan_futures, queue, running, finished, yielded, writes, probes,
                   subnets_out, hosts_out, runs, scanned, first_report>>

\* the open() of save_progress raises (OSError) and the file keeps its text:
\* nothing in scan_networks catches it, the executor is left once its workers
\* have drained the queue, and the exception ends scan_networks before the reports
CollectFails ==
    /\ prog = "subnet" /\ pc = "collect"
    /\ \E u \in scan_futures :
          /\ Yield(u)
          /\ yielded' = yielded \cup {u}
          /\ writes' = Append(writes, u)
    /\ pc' = "save_failed"
    /\ UNCHANGED <<svcVars, liveVars, io, current, prog, prober, progress, nmap_output,
                   start_network, cursor, scan_futures, queue, running, finished, probes,
                   subnets_out, hosts_out, runs, scanned, first_report>>

\* save_progress writes the unit and closes the file: the loop body is over
Checkpoint ==
    /\ prog = "subnet" /\ pc = "save"
    /\ pc' = "collect"
    /\ yielded' = yielded \cup {Get(current)}
    /\ progress' = SaveProgress(progress, Str(Get(current)))
    /\ writes' = Append(writes, Get(current))
    /\ io' = {e \in io : e.thread # MainThread}
    /\ current' = None
    /\ UNCHANGED <<svcVars, liveVars, prog, prober, nmap_output, start_network, cursor,
                   scan_futures, queue, running, finished, waiting, early, probes,
                   subnets_out, hosts_out, runs, scanned, first_report>>

\* the write of save_progress raises (OSError) after the truncation: the file
\* stays empty and the exception ends scan_networks as in CollectFails
CheckpointFails ==
    /\ prog = "subnet" /\ pc = "save"
    /\ pc' = "save_failed"
    /\ yielded' = yielded \cup {Get(current)}
    /\ writes' = Append(writes, Get(current))
    /\ io' = {e \in io : e.thread # MainThread}
    /\ current' = None
    /\ UNCHANGED <<svcVars, liveVars, prog, prober, progress, nmap_output, start_network,
                   cursor, scan_futures, queue, running, finished, waiting, early, probes,
                   subnets_out, hosts_out, runs, scanned, first_report>>

\* ---- parse_nmap_output ----
\* subnet of a host: str(IPv4Network(f"{ip}/24", strict=False))
SubnetOf(ip) ==
    Str(Net((ip \div Pow2(AddrBits - UnitPrefix)) * Pow2(AddrBits - UnitPrefix), UnitPrefix))

\* the "Nmap scan report for" lines of the file, in file order
HostLines(file) == Flatten([i \in 1..Len(file) |-> file[i].hosts])

\* active_hosts[subnet].append(host) on a dict kept in insertion order
AppendHost(d, ip) ==
    IF \E i \in 1..Len(d) : d[i].subnet = SubnetOf(ip)
    THEN [i \in 1..Len(d) |->
            IF d[i].subnet = SubnetOf(ip)
            THEN [d[i] EXCEPT !.hosts = Append(@, ip)]
            ELSE d[i]]
    ELSE Append(d, [subnet |-> SubnetOf(ip), hosts |-> <<ip>>])

RECURSIVE ActiveHosts(_)
ActiveHosts(lines) ==
    IF lines = <<>> THEN <<>>
    ELSE AppendHost(ActiveHosts(SubSeq(lines, 1, Len(lines) - 1)), lines[Len(lines)])

\* `if len(hosts) >= 2`
IsActive(hosts) == Len(hosts) >= 2

ActiveSubnets(d) == {d[i].subnet : i \in {j \in 1..Len(d) : IsActive(d[j].hosts)}}

\* sequence s restricted to the entries satisfying Test
RECURSIVE SelectActive(_)
SelectActive(d) ==
    IF d = <<>> THEN <<>>
    ELSE IF IsActive(Head(d).hosts) THEN <<Head(d)>> \o SelectActive(Tail(d))
    ELSE SelectActive(Tail(d))

\* the active subnets written in the order their first host stands in the file
SubnetReport_DictOrder(d) == [i \in 1..Len(SelectActive(d)) |-> SelectActive(d)[i].subnet]

\* save_to_file(output_file_subnets, active_subnets): the lines of the subnet report
SubnetReport(d) == Sorted(ActiveSubnets(d))

\* the loop is left at the first result
LoopExhausted_FirstResult(seen, futs) == seen # {}

\* `for future in as_completed(scan_futures)` ends: every future was yielded
LoopExhausted(seen, futs) == seen = futs

\* the tail of scan_networks: parse the nmap file and write both reports
Report ==
    /\ prog = "subnet" /\ pc = "collect"
    /\ LoopExhausted(yielded, scan_futures)
    /\ pc' = "done"
    /\ subnets_out' = Some(SubnetReport(ActiveHosts(HostLines(nmap_output))))
    /\ hosts_out' = Some(SelectActive(ActiveHosts(HostLines(nmap_output))))
    /\ UNCHANGED <<svcVars, liveVars, io, current, prog, prober, progress, nmap_output, start_network, cursor, scan_futures,
                   queue, running, finished, waiting, early, yielded, writes, probes,
                   runs, scanned, first_report>>

\* the sweep while every write of the progress file works
NextSweep ==
    \/ LoadProgress
    \/ Submit
    \/ WorkerStart
    \/ \E u \in UnitSet : WorkerOpen(u)
    \/ \E u \in UnitSet : WorkerFinish(u)
    \/ AsCompleted
    \/ Collect
    \/ Checkpoint
    \/ Report

NextSubnet == NextSweep \/ CollectFails \/ CheckpointFails

\* ---- getserviceforall.py ----
\* the targets read from the input file
targets == [i \in 1..MaxTargets |-> i]
TargetSet == Range(targets)

smb_ports == <<139, 445>>
smb_scripts == {"smb-enum-shares", "smb-enum-users", "smb-enum-sessions", "smb-os-discovery"}

\* the --ports arguments tried
PortArgs == {<<139, 445>>, <<80, 445>>}

\* what the script scan of one port does: the call raises, or it returns the
\* output of the scripts (nmap prints nothing, or an ERROR line, for a script
\* that fails)
AllScriptsOk == {[id |-> sc, output |-> "payload"] : sc \in smb_scripts}
EnumUsersSilent == {r \in AllScriptsOk : r.id # "smb-enum-users"}
EnumUsersError == EnumUsersSilent \cup {[id |-> "smb-enum-users", output |-> "ERROR"]}
ScanOk(scripts) == [raises |-> FALSE, scripts |-> scripts]
ScanRaises == [raises |-> TRUE, scripts |-> {}]

\* what nmap finds on one target: does the port check raise, which ports are
\* open, what the script scan of each SMB port does
HostEnv(check_raises, open, scan139, scan445) ==
    [check_raises |-> check_raises, open |-> open, scan |-> <<scan139, scan445>>]

HealthyHost == HostEnv(FALSE, {80, 139, 445}, ScanOk(AllScriptsOk), ScanOk(AllScriptsOk))

OddHosts ==
    { HostEnv(TRUE, {80, 139, 445}, ScanOk(AllScriptsOk), ScanOk(AllScriptsOk)),
      HostEnv(FALSE, {}, ScanOk(AllScriptsOk), ScanOk(AllScriptsOk)),
      HostEnv(FALSE, {445}, ScanOk(AllScriptsOk), ScanOk(AllScriptsOk)),
      HostEnv(FALSE, {80}, ScanOk(AllScriptsOk), ScanOk(AllScriptsOk)),
      HostEnv(FALSE, {80, 139, 445}, ScanRaises, ScanOk(AllScriptsOk)),
      HostEnv(FALSE, {80, 139, 445}, ScanOk(AllScriptsOk), ScanOk(EnumUsersSilent)),
      HostEnv(FALSE, {80, 139, 445}, ScanOk(AllScriptsOk), ScanOk(EnumUsersError)) }

\* at most MaxFail targets differ from a healthy host
HostEnvs ==
    { [t \in TargetSet |-> IF t \in F THEN odd ELSE HealthyHost] :
      F \in {G \in SUBSET TargetSet : Cardinality(G) <= MaxFail},
      odd \in OddHosts }

InitSvc ==
    /\ prog = "svc"
    /\ SubnetIdle /\ LiveIdle
    /\ pc = "map"
    /\ ports \in PortArgs
    /\ hosts_env \in HostEnvs
    /\ t_queue = <<>>
    /\ t_running = {}
    /\ t_pc = [t \in TargetSet |-> "new"]
    /\ t_open = [t \in TargetSet |-> <<>>]
    /\ t_next = [t \in TargetSet |-> 1]
    /\ t_results = [t \in TargetSet |-> <<>>]
    /\ t_raised = [t \in TargetSet |-> FALSE]
    /\ all_results = <<>>
    /\ svc_out = None
    /\ t_calls = [t \in TargetSet |-> {}]

\* executor.map(process_target, targets): every target is submitted at once
SvcMap ==
    /\ prog = "svc" /\ pc = "map"
    /\ pc' = "wait"
    /\ t_queue' = targets
    /\ t_pc' = [t \in TargetSet |-> "queued"]
    /\ UNCHANGED <<sweepVarsButPc, liveVars, prog, ports, hosts_env, t_running, t_open,
                   t_next, t_results, t_raised, all_results, svc_out, t_calls>>

SvcWorkerStart ==
    /\ prog = "svc" /\ pc = "wait"
    /\ t_queue # <<>>
    /\ CanStart(t_running, SvcThreads)
    /\ t_running' = t_running \cup {Head(t_queue)}
    /\ t_queue' = Tail(t_queue)
    /\ t_pc' = [t_pc EXCEPT ![Head(t_queue)] = "check"]
    /\ UNCHANGED <<sweepVars, liveVars, prog, ports, hosts_env, t_open, t_next, t_results,
                   t_raised, all_results, svc_out, t_calls>>

\* check_port_open: the ports of the argument that the scan reports open, in
\* argument order; [] when the scan raises
CheckPortOpen(env, ports_arg) ==
    IF env.check_raises THEN <<>>
    ELSE SelectSeq(ports_arg, LAMBDA p : p \in env.open)

\* the first part of scan_host: the port check and the early return
SvcCheck(t) ==
    /\ prog = "svc" /\ pc = "wait"
    /\ t_pc[t] = "check"
    /\ t_open' = [t_open EXCEPT ![t] = CheckPortOpen(hosts_env[t], ports)]
    /\ IF CheckPortOpen(hosts_env[t], ports) = <<>>
       THEN /\ t_pc' = [t_pc EXCEPT ![t] = "done"]
            /\ t_running' = t_running \ {t}
       ELSE /\ t_pc' = [t_pc EXCEPT ![t] = "smb"]
            /\ UNCHANGED t_running
    /\ UNCHANGED <<sweepVars, liveVars, prog, ports, hosts_env, t_queue, t_next, t_results,
                   t_raised, all_results, svc_out, t_calls>>

\* the script scan is called for every SMB port
EnumCalled_AnySmbPort(smb_port, open_ports) == TRUE

\* `if smb_port in open_ports`: is the script scan called for this port
EnumCalled(smb_port, open_ports) == smb_port \in Range(open_ports)

\* the script scan is not guarded: its exception leaves scan_host
ScanHostStep_Unguarded(results, target, smb_port, open_ports, outcome) ==
    IF EnumCalled(smb_port, open_ports)
    THEN IF outcome.raises
         THEN [results |-> results, raised |-> TRUE]
         ELSE [results |-> Append(results, [host |-> target, port |-> smb_port,
                                            scripts |-> outcome.scripts]),
               raised |-> FALSE]
    ELSE [results |-> results, raised |-> FALSE]

\* one iteration of `for smb_port in smb_ports` in scan_host: the state of the
\* call after it (results, and whether an exception left scan_host)
ScanHostStep(results, target, smb_port, open_ports, outcome) ==
    IF EnumCalled(smb_port, open_ports)
    THEN IF outcome.raises
         THEN [results |-> results, raised |-> FALSE]
         ELSE [results |-> Append(results, [host |-> target, port |-> smb_port,
                                            scripts |-> outcome.scripts]),
               raised |-> FALSE]
    ELSE [results |-> results, raised |-> FALSE]

SvcScan(t) ==
    /\ prog = "svc" /\ pc = "wait"
    /\ t_pc[t] = "smb"
    /\ LET step == ScanHostStep(t_results[t], t, smb_ports[t_next[t]], t_open[t],
                                hosts_env[t].scan[t_next[t]])
       IN  /\ t_results' = [t_results EXCEPT ![t] = step.results]
           /\ t_calls' = [t_calls EXCEPT ![t] =
                              IF EnumCalled(smb_ports[t_next[t]], t_open[t])
                              THEN @ \cup {smb_ports[t_next[t]]} ELSE @]
           /\ t_raised' = [t_raised EXCEPT ![t] = step.raised]
           /\ IF step.raised \/ t_next[t] = Len(smb_ports)
              THEN /\ t_pc' = [t_pc EXCEPT ![t] = "done"]
                   /\ t_running' = t_running \ {t}
                   /\ UNCHANGED t_next
              ELSE /\ t_next' = [t_next EXCEPT ![t] = @ + 1]
                   /\ UNCHANGED <<t_pc, t_running>>
    /\ UNCHANGED <<sweepVars, liveVars, prog, ports, hosts_env, t_queue, t_open,
                   all_results, svc_out>>

\* the executor is left once every target is done; then the results are read
\* in target order (an exception of a target is raised again there) and written
SvcFinish ==
    /\ prog = "svc" /\ pc = "wait"
    /\ \A t \in TargetSet : t_pc[t] = "done"
    /\ IF \E t \in TargetSet : t_raised[t]
       THEN /\ pc' = "aborted"
            /\ UNCHANGED <<all_results, svc_out>>
       ELSE /\ pc' = "done"
            /\ all_results' = Flatten([i \in 1..Len(targets) |-> t_results[targets[i]]])
            /\ svc_out' = Some(Flatten([i \in 1..Len(targets) |-> t_results[targets[i]]]))
    /\ UNCHANGED <<sweepVarsButPc, liveVars, prog, ports, hosts_env, t_queue, t_running,
                   t_pc, t_open, t_next, t_results, t_raised, t_calls>>

NextSvc ==
    \/ SvcMap
    \/ SvcWorkerStart
    \/ \E t \in TargetSet : SvcCheck(t)
    \/ \E t \in TargetSet : SvcScan(t)
    \/ SvcFinish

\* ---- vf.py ----
\* generate_all_private_networks: three disjoint ranges, in this order
private_networks ==
    [i \in 1..3 |-> [first |-> (2 * i - 1) * LiveNetSize, size |-> LiveNetSize]]

\* net.hosts(): every address but the network and the broadcast address, ascending
Hosts(net) == [j \in 1..(net.size - 2) |-> net.first + j]

AllLiveHosts == UNION {Range(Hosts(private_networks[i])) : i \in 1..Len(private_networks)}

\* what detect_vlan returns: None, or the tag of the answer (0 is a possible tag)
VlanAnswers == {None, Some(0), Some(7)}

InitLive ==
    /\ prog = "live"
    /\ SubnetIdle /\ SvcIdle
    /\ pc = "submit"
    /\ net_idx = 1
    /\ futures = <<>>
    /\ l_queue = <<>>
    /\ l_running = {}
    /\ l_result = [h \in AllLiveHosts |-> "pending"]
    /\ l_pos = 1
    /\ active_hosts = <<>>
    /\ detected_vlans = <<>>
    /\ live_out = None
    /\ vlan_out = None
    /\ l_done = <<>>

\* futures = [executor.submit(is_host_alive, ip) for ip in net.hosts()]
LiveSubmit ==
    /\ prog = "live" /\ pc = "submit"
    /\ net_idx <= Len(private_networks)
    /\ futures' = Hosts(private_networks[net_idx])
    /\ l_queue' = l_queue \o Hosts(private_networks[net_idx])
    /\ l_pos' = 1
    /\ pc' = "result"
    /\ UNCHANGED <<sweepVarsButPc, svcVars, prog, net_idx, l_running, l_result,
                   active_hosts, detected_vlans, live_out, vlan_out, l_done>>

LiveWorkerStart ==
    /\ prog = "live"
    /\ l_queue # <<>>
    /\ CanStart(l_running, LiveWorkers)
    /\ l_running' = l_running \cup {Head(l_queue)}
    /\ l_queue' = Tail(l_queue)
    /\ UNCHANGED <<sweepVars, svcVars, prog, net_idx, futures, l_result, l_pos,
                   active_hosts, detected_vlans, live_out, vlan_out, l_done>>

\* is_host_alive returns the address (ping exit status 0) or None
LiveWorkerFinish(h) ==
    /\ prog = "live"
    /\ h \in l_running
    /\ l_running' = l_running \ {h}
    /\ \E r \in {"alive", "dead"} : l_result' = [l_result EXCEPT ![h] = r]
    /\ l_done' = Append(l_done, h)
    /\ UNCHANGED <<sweepVars, svcVars, prog, net_idx, futures, l_queue, l_pos,
                   active_hosts, detected_vlans, live_out, vlan_out>>

\* the futures of the network are read from the last to the first
NextFuture_Reversed(futs, pos) == futs[Len(futs) + 1 - pos]

\* `for future in futures`: the future the loop reads at its pos-th turn
NextFuture(futs, pos) == futs[pos]

\* future.result() of the next future of the list, once it is done
LiveResult ==
    /\ prog = "live" /\ pc = "result"
    /\ l_pos <= Len(futures)
    /\ l_result[NextFuture(futures, l_pos)] # "pending"
    /\ IF l_result[NextFuture(futures, l_pos)] = "alive"
       THEN /\ active_hosts' = Append(active_hosts, NextFuture(futures, l_pos))
            /\ pc' = "vlan"
            /\ UNCHANGED l_pos
       ELSE /\ l_pos' = l_pos + 1
            /\ UNCHANGED <<active_hosts, pc>>
    /\ UNCHANGED <<sweepVarsButPc, svcVars, prog, net_idx, futures, l_queue, l_running,
                   l_result, detected_vlans, live_out, vlan_out, l_done>>

\* detected_vlans[result] = vlan_id, when detect_vlan returned a truthy tag
RecordVlan(d, host, answer) ==
    IF answer # None /\ Get(answer) # 0
    THEN Append(SelectSeq(d, LAMBDA e : e.host # host), [host |-> host, vlan |-> Get(answer)])
    ELSE d

\* detect_vlan(result) on the main thread, for the live host just appended
LiveVlan ==
    /\ prog = "live" /\ pc = "vlan"
    /\ \E answer \in VlanAnswers :
          detected_vlans' = RecordVlan(detected_vlans, NextFuture(futures, l_pos), answer)
    /\ l_pos' = l_pos + 1
    /\ pc' = "result"
    /\ UNCHANGED <<sweepVarsButPc, svcVars, prog, net_idx, futures, l_queue, l_running,
                   l_result, active_hosts, live_out, vlan_out, l_done>>

\* the futures of the network are exhausted: next network
LiveNextNetwork ==
    /\ prog = "live" /\ pc = "result"
    /\ l_pos > Len(futures)
    /\ net_idx' = net_idx + 1
    /\ pc' = "submit"
    /\ UNCHANGED <<sweepVarsButPc, svcVars, prog, futures, l_queue, l_running, l_result,
                   l_pos, active_hosts, detected_vlans, live_out, vlan_out, l_done>>

\* after the last network both files are written
LiveReport ==
    /\ prog = "live" /\ pc = "submit"
    /\ net_idx > Len(private_networks)
    /\ live_out' = Some(active_hosts)
    /\ vlan_out' = Some(detected_vlans)
    /\ pc' = "done"
    /\ UNCHANGED <<sweepVarsButPc, svcVars, prog, net_idx, futures, l_queue, l_running,
                   l_result, l_pos, active_hosts, detected_vlans, l_done>>

NextLive ==
    \/ LiveSubmit
    \/ LiveWorkerStart
    \/ \E h \in AllLiveHosts : LiveWorkerFinish(h)
    \/ LiveResult
    \/ LiveVlan
    \/ LiveNextNetwork
    \/ LiveReport

Init == InitSubnet \/ InitSvc \/ InitLive

Next == NextSubnet \/ NextSvc \/ NextLive

Spec == Init /\ [][Next]_vars

\* ---- a second invocation over the same files ----
\* the script starts again: the in-memory state of scan_networks is new
Restart ==
    /\ pc' = "load"
    /\ start_network' = None
    /\ cursor' = 1
    /\ scan_futures' = {}
    /\ queue' = <<>>
    /\ running' = {}
    /\ finished' = {}
    /\ waiting' = <<>>
    /\ early' = {}
    /\ yielded' = {}
    /\ writes' = <<>>
    /\ probes' = [u \in UnitSet |-> 0]
    /\ io' = {}
    /\ current' = None

\* the process is killed while the sweep is under way and the script is started
\* again: files stay, everything in memory is lost
Crash ==
    /\ prog = "subnet" /\ pc \in {"submit", "collect", "save"}
    /\ runs < MaxRuns
    /\ runs' = runs + 1
    /\ scanned' = Append(scanned, {})
    /\ Restart
    /\ UNCHANGED <<svcVars, liveVars, prog, prober, progress, nmap_output, subnets_out, hosts_out, first_report>>

\* the finished sweep is run again with the progress file removed
Rerun ==
    /\ prog = "subnet" /\ pc = "done"
    /\ runs < MaxRuns
    /\ runs' = runs + 1
    /\ scanned' = Append(scanned, {})
    /\ first_report' = Some([subnets |-> Get(subnets_out), hosts |-> Get(hosts_out)])
    /\ progress' = None
    /\ Restart
    /\ UNCHANGED <<svcVars, liveVars, prog, prober, nmap_output, subnets_out, hosts_out>>

\* a first invocation with no progress file
InitFirstRun == InitSubnet /\ progress = None

NextResume == NextSweep \/ Crash \/ Rerun

SpecResume == InitFirstRun /\ [][NextResume]_vars


\* ======================= claims =======================

\* position of a unit in ascending numeric order of base address
Rank(u) == Cardinality({v \in UnitSet : v.addr < u.addr})

\* the unit the progress file names, when it names one
MarkerUnit == CHOOSE u \in UnitSet : progress = Some(Str(u))
MarkerIsUnit == \E u \in UnitSet : progress = Some(Str(u))

\* units whose block is in the nmap output file
Observed == {u \in UnitSet : \E i \in 1..Len(nmap_output) : nmap_output[i].subnet = Str(u)}

\* C1: every save_progress write stores a unit >= the one stored before it, and
\* once the sweep is over the stored marker is >= every completed unit.
C1_MarkerMonotonic ==
    prog = "subnet" =>
        /\ \A i \in 1..(Len(writes) - 1) : Rank(writes[i]) <= Rank(writes[i + 1])
        /\ (pc = "done" /\ yielded # {}) =>
              /\ MarkerIsUnit
              /\ \A u \in yielded : Rank(u) <= Rank(MarkerUnit)

\* C2: after a crash and a resumed run that finished, every unit that had not
\* completed before the crash has been scanned by the resumed run.
C2_NoUnitSkipped ==
    (prog = "subnet" /\ pc = "done" /\ runs = 2 /\ first_report = None) =>
        \A u \in UnitSet \ scanned[1] : u \in scanned[2]

\* C3: with a stored marker equal to unit U, the units the submit loop leaves out
\* are exactly the units before U in numeric order; U itself is submitted.
C3_ResumeSkipsBefore ==
    (prog = "subnet" /\ pc = "collect" /\ writes = <<>> /\ MarkerIsUnit) =>
        /\ scan_futures \subseteq UnitSet
        /\ UnitSet \ scan_futures = {u \in UnitSet : Rank(u) < Rank(MarkerUnit)}
        /\ MarkerUnit \in scan_futures

C3_Witness ==
    /\ prog = "subnet" /\ pc = "collect" /\ writes = <<>>
    /\ MarkerIsUnit
    /\ Rank(MarkerUnit) = 2
    /\ Cardinality(scan_futures) = Cardinality(UnitSet) - 2

\* C4: a sweep with no marker submits 2^(UnitPrefix - BasePrefix) units (65536 for
\* /8 into /24), once each, and every address of the base range lies in exactly
\* one of them.
C4_PartitionExhaustive ==
    (prog = "subnet" /\ pc = "collect" /\ start_network = None) =>
        /\ Len(queue) + Cardinality(running) + Cardinality(finished)
               = Pow2(UnitPrefix - BasePrefix)
        /\ Cardinality(scan_futures) = Pow2(UnitPrefix - BasePrefix)
        /\ \A a \in Addresses(base_network) :
               Cardinality({u \in scan_futures : a \in Addresses(u)}) = 1
        /\ \A u \in scan_futures :
               u.prefix = UnitPrefix /\ Addresses(u) \subseteq Addresses(base_network)

C4_Witness ==
    /\ prog = "subnet" /\ pc = "collect" /\ start_network = None
    /\ Cardinality(scan_futures) = Pow2(UnitPrefix - BasePrefix)
    /\ \E u \in scan_futures : u.addr + Pow2(AddrBits - UnitPrefix) = Pow2(AddrBits)

\* C5: when the reports are written, a subnet with exactly one distinct live host
\* is not in the active list, and a scanned subnet with two or more is.
C5_ActivityThreshold ==
    (prog = "subnet" /\ pc = "done") =>
        \A u \in UnitSet :
            /\ Cardinality(Range(prober[u].hosts)) = 1
                  => Str(u) \notin Range(Get(subnets_out))
            /\ (Cardinality(Range(prober[u].hosts)) >= 2 /\ u \in Observed)
                  => Str(u) \in Range(Get(subnets_out))

\* as_completed waits for a future that no worker will ever complete
Stalled ==
    /\ pc = "collect" /\ yielded # scan_futures
    /\ early = {} /\ waiting = <<>>
    /\ running = {} /\ queue = <<>>

\* C6: a unit whose probe times out is probed once, adds nothing to the nmap
\* output, gets its progress write when as_completed yields it, and the sweep
\* never stalls: every submitted unit is checkpointed before the reports.
C6_TimeoutCheckpointed ==
    prog = "subnet" =>
        \A u \in UnitSet : prober[u].kind = "timeout" =>
            /\ probes[u] <= 1
            /\ u \notin Observed
            /\ u \in yielded => \E i \in 1..Len(writes) : writes[i] = u
            /\ (pc = "done" /\ u \in scan_futures) => u \in yielded
            /\ ~Stalled

C6_Witness ==
    /\ prog = "subnet" /\ pc = "done"
    /\ \E u \in scan_futures :
          /\ prober[u].kind = "timeout"
          /\ probes[u] = 1
          /\ progress = Some(Str(u))
          /\ \E v \in scan_futures : v # u /\ v \in Observed


\* results the service scan is bound to report for target t: one per SMB port
\* that the port check found open and whose script scan returned
Reportable(t) ==
    {i \in 1..Len(smb_ports) :
        /\ ~hosts_env[t].check_raises
        /\ smb_ports[i] \in Range(ports)
        /\ smb_ports[i] \in hosts_env[t].open
        /\ ~hosts_env[t].scan[i].raises}

ScriptFailed(outcome, id) == [id |-> id, output |-> "payload"] \notin outcome.scripts
ScriptWorked(outcome, id) == [id |-> id, output |-> "payload"] \in outcome.scripts

\* C9: when smb-enum-users fails and smb-os-discovery succeeds for a host and
\* port, the written results hold the os-discovery payload and a failure marker
\* for smb-enum-users.
C9_PartialFailureRecorded ==
    (prog = "svc" /\ pc = "done") =>
        \A t \in TargetSet : \A i \in Reportable(t) :
            ( /\ ScriptFailed(hosts_env[t].scan[i], "smb-enum-users")
              /\ ScriptWorked(hosts_env[t].scan[i], "smb-os-discovery") )
            => \E r \in Range(Get(svc_out)) :
                  /\ r.host = t /\ r.port = smb_ports[i]
                  /\ [id |-> "smb-os-discovery", output |-> "payload"] \in r.scripts
                  /\ \E m \in r.scripts : m.id = "smb-enum-users" /\ m.output # "payload"

\* C10: a second full sweep, started with no progress file against the same
\* fixture, writes the same two reports as the first.
C10_Idempotent ==
    (prog = "subnet" /\ pc = "done" /\ first_report # None) =>
        /\ Get(subnets_out) = Get(first_report).subnets
        /\ Get(hosts_out) = Get(first_report).hosts


\* C11: with no progress file, or an empty or a malformed one, the sweep does not
\* fail: it takes the marker as absent and submits every unit.
C11_MarkerTolerated ==
    (prog = "subnet" /\ runs = 1) =>
        /\ pc # "aborted"
        /\ (pc = "collect" /\ writes = <<>>
              /\ progress \in {None, Some(<<>>), Some(Malformed)})
           => scan_futures = UnitSet

\* the units of the base range cut directly at the unit prefix
SingleLevel == Subnets(base_network, UnitPrefix)

\* C12: the units the nested loops have visited so far are the first units of the
\* single-level partition, in the same ascending order, and once the loops end
\* the two sequences have the same length.
C12_TwoLevelEqualsSingle ==
    (prog = "subnet" /\ pc \in {"submit", "collect", "done"}) =>
        /\ cursor - 1 <= Len(SingleLevel)
        /\ \A i \in 1..(cursor - 1) : UnitSeq[i] = SingleLevel[i]
        /\ \A i \in 1..(cursor - 2) : UnitSeq[i].addr < UnitSeq[i + 1].addr
        /\ pc # "submit" => cursor - 1 = Len(SingleLevel)

C12_Witness ==
    /\ prog = "subnet" /\ pc = "collect"
    /\ Len(Subnets(base_network, MidPrefix)) >= 2
    /\ cursor - 1 = Pow2(UnitPrefix - BasePrefix)
    /\ start_network = None


\* C13: during a sweep no file other than the progress file is held open for
\* writing by two threads at once (two workers, or a worker and the main thread).
C13_NoUnlockedSharedFile ==
    prog = "subnet" =>
        \A e1 \in io : \A e2 \in io :
            (e1.file = e2.file /\ e1.file # "progress") => e1.thread = e2.thread

\* the sweep has ended: normally, on a malformed marker, or on a failed write of
\* the progress file once the executor has shut down
Drained == queue = <<>> /\ running = {}
Terminated == pc \in {"done", "aborted"} \/ (pc = "save_failed" /\ Drained)

\* C14: a failed write of the progress file does not end the sweep: no sweep
\* terminates on it without having written its reports.
C14_SaveFailureNotFatal ==
    prog = "subnet" => ~(pc = "save_failed" /\ Drained /\ subnets_out = None)

\* the units whose scan completed with at least two hosts, as texts: a function
\* of the per-unit results only
ExpectedActive ==
    {Str(u) : u \in {v \in scan_futures : prober[v].kind = "ok" /\ IsActive(prober[v].hosts)}}

\* C15: the subnet report depends on the per-unit results only, not on the order
\* in which they arrived: it lists the active subnets, each once, in sorted order.
C15_OrderIndependent ==
    (prog = "subnet" /\ pc = "done" /\ runs = 1) =>
        /\ Range(Get(subnets_out)) = ExpectedActive
        /\ Len(Get(subnets_out)) = Cardinality(ExpectedActive)
        /\ \A i \in 1..(Len(Get(subnets_out)) - 1) :
              StrLt(Get(subnets_out)[i], Get(subnets_out)[i + 1])

\* two active subnets whose results arrived in the opposite of the sorted order
C15_Witness ==
    /\ prog = "subnet" /\ pc = "done" /\ runs = 1
    /\ Len(Get(subnets_out)) >= 2
    /\ \E i \in 1..Len(nmap_output) : \E j \in 1..Len(nmap_output) :
          /\ i < j
          /\ IsActive(nmap_output[i].hosts) /\ IsActive(nmap_output[j].hosts)
          /\ StrLt(nmap_output[j].subnet, nmap_output[i].subnet)

\* C16: the script scan is called for a port of a host only if the port is an
\* SMB port that the port check of this host reported open; a host whose port
\* check reports nothing open, or raises, gets no call and yields no result.
C16_EnumOnlyConfirmedOpen ==
    prog = "svc" =>
        \A t \in TargetSet :
            /\ \A p \in t_calls[t] :
                  /\ p \in {139, 445}
                  /\ ~hosts_env[t].check_raises
                  /\ p \in hosts_env[t].open
                  /\ p \in Range(ports)
            /\ \A i \in 1..Len(t_results[t]) : t_results[t][i].port \in t_calls[t]
            /\ (hosts_env[t].check_raises \/ hosts_env[t].open \cap Range(ports) = {})
                  => (t_calls[t] = {} /\ t_results[t] = <<>>)

\* every target is done: one was enumerated on 445 only although its port 139 is
\* open too (139 was not among the checked ports), one had a failing or empty
\* port check
C16_Witness ==
    /\ prog = "svc" /\ pc = "done"
    /\ \E t \in TargetSet :
          /\ 139 \in hosts_env[t].open
          /\ t_calls[t] = {445}
    /\ \E t \in TargetSet :
          /\ hosts_env[t].check_raises \/ hosts_env[t].open \cap Range(ports) = {}
          /\ t_pc[t] = "done"

\* C17: at most one save_progress call is executing at any time, and it is the
\* main thread's: marker writes never interleave, whatever the workers do.
C17_ProgressWritesSerialized ==
    prog = "subnet" =>
        /\ \A e1 \in io : \A e2 \in io :
              (e1.file = "progress" /\ e2.file = "progress") => e1 = e2
        /\ \A e \in io : e.file = "progress" => (e.thread = MainThread /\ pc = "save")

\* the main thread is inside save_progress while the pool is full and a worker
\* is appending to the nmap file
C17_Witness ==
    /\ prog = "subnet" /\ pc = "save"
    /\ InFile(MainThread)
    /\ Cardinality(running) = MaxWorkers
    /\ \E u \in running : InFile(Worker(u))

\* C18: the reports are built after the scan phase: when parse_nmap_output has
\* run, every submitted unit has finished and no worker is running, queued or
\* inside a file; in the liveness sweep active_hosts and detected_vlans change
\* only in steps of the main thread's result loop.
C18_SingleConsumer ==
    /\ [](prog = "subnet" /\ pc = "done"
            => /\ running = {}
               /\ queue = <<>>
               /\ io = {}
               /\ finished = scan_futures)
    /\ [][(active_hosts' # active_hosts \/ detected_vlans' # detected_vlans)
            => /\ pc \in {"result", "vlan"}
               /\ UNCHANGED <<l_queue, l_running, l_result>>]_vars

\* the reports are written after a sweep in which workers ran side by side
C18_Witness ==
    /\ prog = "subnet" /\ pc = "done"
    /\ Cardinality(scan_futures) > MaxWorkers
    /\ Len(nmap_output) >= 2
    /\ subnets_out # None

\* number of save_progress calls made for unit u
WriteCount(u) == Cardinality({i \in 1..Len(writes) : writes[i] = u})

\* C19: when the sweep has terminated, exactly one progress write was made for
\* each submitted unit and none for a skipped unit.
C19_OneWritePerSubmittedUnit ==
    (prog = "subnet" /\ Terminated) =>
        \A u \in UnitSet : WriteCount(u) = IF u \in scan_futures THEN 1 ELSE 0

\* index of the network a host belongs to
NetOf(h) == CHOOSE n \in 1..Len(private_networks) : h \in Range(Hosts(private_networks[n]))

\* C20: the active-host list is written network by network in the fixed order
\* and in ascending address order within a network, holds a host iff its ping
\* reported it alive, and holds every host that has a VLAN entry.
C20_SubmissionOrder ==
    (prog = "live" /\ pc = "done") =>
        /\ \A i \in 1..Len(Get(live_out)) : \A j \in 1..Len(Get(live_out)) :
              i < j => /\ NetOf(Get(live_out)[i]) <= NetOf(Get(live_out)[j])
                       /\ Get(live_out)[i] < Get(live_out)[j]
        /\ \A h \in AllLiveHosts : h \in Range(Get(live_out)) <=> l_result[h] = "alive"
        /\ \A i \in 1..Len(Get(vlan_out)) : Get(vlan_out)[i].host \in Range(Get(live_out))

\* two live hosts of one network answered in the opposite of the submission
\* order, and a VLAN was recorded
C20_Witness ==
    /\ prog = "live" /\ pc = "done"
    /\ Get(vlan_out) # <<>>
    /\ \E i \in 1..Len(l_done) : \E j \in 1..Len(l_done) :
          /\ i < j
          /\ l_done[i] > l_done[j]
          /\ NetOf(l_done[i]) = NetOf(l_done[j])
          /\ l_result[l_done[i]] = "alive" /\ l_result[l_done[j]] = "alive"

====
